---- MODULE Spec2Model ----
(***************************************************************************)
(* Model of the AIOps dashboard pipeline of src/app.py:                    *)
(*   PrometheusClient.query  (requests session with urllib3 Retry)         *)
(*   process_metric          (raw JSON response -> DataFrame rows)         *)
(*   fetch_metrics           (one query per METRICS entry)                 *)
(*   display_metrics         (per-device / per-mount groups and deltas)    *)
(*   main                    (the polling loop)                            *)
(*                                                                         *)
(* Python values are encoded with uniform records:                         *)
(*   - a raw response is [isNone, keys, data]; data is [isNull, keys,      *)
(*     result]; "k in d" is k \in d.keys;                                  *)
(*   - a result item is [keys, metric, value]; metric gives each label or  *)
(*     Absent; value is the JSON list <<timestamp, string>> or a prefix;   *)
(*   - a JSON string that float() parses is a sequence of characters;      *)
(*   - a float is an integer, or the result of a float division: a         *)
(*     normalised fraction [kind |-> "fin", num, den] or inf / -inf / nan. *)
(***************************************************************************)
EXTENDS Integers, Sequences, FiniteSets

VARIABLES
    pc,            \* position of the running code
    backend,       \* the responses the backend gives to successive HTTP attempts
    reply,         \* what PrometheusClient.query returned / reported
    name,          \* the METRICS key whose result is being processed
    raw,           \* the raw response handed to process_metric
    df,            \* the outcome of process_metric: [raised, frame]
    view,          \* what display_metrics emitted for the frame
    cycle,         \* number of the while-loop iteration of main
    qi,            \* index into METRICS inside fetch_metrics
    results,       \* fetch_metrics' results dict (name -> frame)
    shown,         \* content of the placeholder container
    emitted,       \* number of completed display_metrics calls
    auto_refresh,  \* sidebar checkbox
    refresh_rate,  \* sidebar slider
    slept,         \* duration of the last time.sleep of main
    stop_requested \* a Stop signal has been sent to the running loop

vars == <<pc, backend, reply, name, raw, df, view, cycle, qi, results, shown,
          emitted, auto_refresh, refresh_rate, slept, stop_requested>>

clientVars == <<backend, reply>>
pipeVars == <<name, raw, df, view>>
loopVars == <<cycle, qi, results, shown, emitted, auto_refresh, refresh_rate, slept,
              stop_requested>>

----------------------------------------------------------------------------
(* Bounds of the model *)

ScriptLen == 3     \* scripted backend responses per query call
MaxItems == 3      \* items in a raw result list
MaxCycles == 2     \* iterations of the polling loop that are explored

----------------------------------------------------------------------------
(* Python / JSON value encodings *)

Absent == "<absent>"

NullData == [isNull |-> TRUE, keys |-> {}, result |-> <<>>]

DataObj(ks, res) == [isNull |-> FALSE, keys |-> ks, result |-> res]

PyNone == [isNone |-> TRUE, keys |-> {}, data |-> NullData]

Dict(ks, d) == [isNone |-> FALSE, keys |-> ks, data |-> d]

\* {"status": "success", "data": {"resultType": "vector", "result": res}}
Vector(res) == Dict({"status", "data"}, DataObj({"resultType", "result"}, res))

Labels(dev, mo, mp) == [device |-> dev, mode |-> mo, mountpoint |-> mp]

NoLabels == Labels(Absent, Absent, Absent)

Item(m, v) == [keys |-> {"metric", "value"}, metric |-> m, value |-> v]

----------------------------------------------------------------------------
(* PrometheusClient: requests.Session with HTTPAdapter(max_retries=Retry(...)) *)

RetryTotal == 3

status_forcelist == {500, 502, 503, 504}

\* urllib3's Retry honours Retry-After on these statuses by default
RETRY_AFTER_STATUS_CODES == {413, 429, 503}

Resp(st, ra, js, b) ==
    [err |-> FALSE, status |-> st, retry_after |-> ra, json |-> js, body |-> b]

ConnErr == [err |-> TRUE, status |-> 0, retry_after |-> FALSE, json |-> FALSE, body |-> PyNone]

\* a forcelist that takes in every error status
is_retry_any_error(status, has_retry_after, total) == status >= 400

\* Retry.is_retry(method="GET", status_code, has_retry_after)
is_retry(status, has_retry_after, total) ==
    \/ status \in status_forcelist
    \/ total # 0 /\ has_retry_after /\ status \in RETRY_AFTER_STATUS_CODES

\* Retry.increment: one retry is consumed
increment(total) == total - 1

\* `total` read as the number of attempts
is_exhausted_at_zero(total) == total <= 0

\* Retry.is_exhausted
is_exhausted(total) == total < 0

\* the backend's answer to the n-th attempt; it keeps giving its last answer
ResponseAt(b, n) == b[IF n > Len(b) THEN Len(b) ELSE n]

\* HTTPAdapter.send / HTTPConnectionPool.urlopen: attempt n with `total` retries left
RECURSIVE urlopen(_, _, _)
urlopen(b, n, total) ==
    LET r == ResponseAt(b, n) IN
    IF r.err \/ is_retry(r.status, r.retry_after, total)
    THEN IF is_exhausted(increment(total))
         THEN [attempts |-> n,
               exc |-> IF r.err THEN "ConnectionError" ELSE "RetryError",
               response |-> r]
         ELSE urlopen(b, n + 1, increment(total))
    ELSE [attempts |-> n, exc |-> "", response |-> r]

session_get(b) == urlopen(b, 1, RetryTotal)

\* Response.raise_for_status
raise_for_status(r) == r.status >= 400 /\ r.status < 600

\* PrometheusClient.query: the value returned, the number of HTTP attempts made and
\* the exception reported through st.error ("" when none)
query(b) ==
    LET sent == session_get(b) IN
    IF sent.exc # ""
    THEN [ret |-> PyNone, attempts |-> sent.attempts, error |-> sent.exc]
    ELSE IF raise_for_status(sent.response)
    THEN [ret |-> PyNone, attempts |-> sent.attempts, error |-> "HTTPError"]
    ELSE IF ~sent.response.json
    THEN [ret |-> PyNone, attempts |-> sent.attempts, error |-> "JSONDecodeError"]
    ELSE [ret |-> sent.response.body, attempts |-> sent.attempts, error |-> ""]

NoReply == [ret |-> PyNone, attempts |-> 0, error |-> ""]

Responses ==
    {Resp(200, FALSE, TRUE, Vector(<<>>)),     \* 2xx with a JSON body
     Resp(200, FALSE, FALSE, PyNone),          \* 2xx whose body is not JSON
     Resp(404, FALSE, FALSE, PyNone),
     Resp(429, FALSE, FALSE, PyNone),
     Resp(429, TRUE, FALSE, PyNone),           \* 429 with a Retry-After header
     Resp(500, FALSE, FALSE, PyNone),
     Resp(501, FALSE, FALSE, PyNone),
     Resp(502, FALSE, FALSE, PyNone),
     Resp(503, FALSE, FALSE, PyNone),
     Resp(504, FALSE, FALSE, PyNone),
     ConnErr}

Scripts == [1..ScriptLen -> Responses]

----------------------------------------------------------------------------
(* process_metric *)

Digits == {"0", "1", "2", "3", "4", "5", "6", "7", "8", "9"}

DigitVal(c) ==
    CASE c = "0" -> 0 [] c = "1" -> 1 [] c = "2" -> 2 [] c = "3" -> 3 [] c = "4" -> 4
      [] c = "5" -> 5 [] c = "6" -> 6 [] c = "7" -> 7 [] c = "8" -> 8 [] c = "9" -> 9

RECURSIVE Decimal(_)
Decimal(ds) ==
    IF ds = <<>> THEN 0
    ELSE 10 * Decimal(SubSeq(ds, 1, Len(ds) - 1)) + DigitVal(ds[Len(ds)])

AllDigits(ds) == ds # <<>> /\ \A i \in 1..Len(ds) : ds[i] \in Digits

\* float(s) for strings over digits, "-" and other characters: [ok, v]; ~ok is ValueError
float(s) ==
    IF AllDigits(s) THEN [ok |-> TRUE, v |-> Decimal(s)]
    ELSE IF s # <<>> /\ s[1] = "-" /\ AllDigits(Tail(s))
    THEN [ok |-> TRUE, v |-> 0 - Decimal(Tail(s))]
    ELSE [ok |-> FALSE, v |-> 0]

\* dict.get(key, default) on the label mapping
get(m, key, default) == IF m[key] = Absent THEN default ELSE m[key]

\* the body of the try block: does building the record raise?
RowRaises(item) ==
    \/ "value" \notin item.keys          \* KeyError
    \/ Len(item.value) < 2               \* IndexError
    \/ ~float(item.value[2]).ok          \* ValueError

Row(item) ==
    LET metric_info == IF "metric" \in item.keys THEN item.metric ELSE NoLabels IN
    [timestamp |-> item.value[1],
     value |-> float(item.value[2]).v,
     metric |-> metric_info,
     mode |-> get(metric_info, "mode", "unknown"),
     device |-> get(metric_info, "device", "unknown")]

\* the for loop left at the first raising item (`break`)
RECURSIVE Records_break(_)
Records_break(items) ==
    IF items = <<>> \/ RowRaises(Head(items)) THEN <<>>
    ELSE <<Row(Head(items))>> \o Records_break(Tail(items))

\* the for loop of process_metric: a raising item is skipped (`continue`)
RECURSIVE Records(_)
Records(items) ==
    IF items = <<>> THEN <<>>
    ELSE IF RowRaises(Head(items)) THEN Records(Tail(items))
    ELSE <<Row(Head(items))>> \o Records(Tail(items))

EmptyFrame == [raised |-> FALSE, frame |-> <<>>]

\* process_metric(result): [raised, frame]; raised is an exception leaving the function
process_metric(result) ==
    IF result.isNone \/ result.keys = {} \/ "data" \notin result.keys
    THEN EmptyFrame
    ELSE IF result.data.isNull \/ "result" \notin result.data.keys
    THEN [raised |-> TRUE, frame |-> <<>>]     \* TypeError / KeyError at line 147
    ELSE IF result.data.result = <<>>
    THEN EmptyFrame
    ELSE [raised |-> FALSE, frame |-> Records(result.data.result)]

----------------------------------------------------------------------------
(* float64 arithmetic as pandas / numpy perform it: exact fractions, and the *)
(* IEEE results of dividing by zero (no exception is raised)                 *)

Abs(i) == IF i < 0 THEN 0 - i ELSE i

RECURSIVE GCD(_, _)
GCD(a, b) == IF b = 0 THEN a ELSE GCD(b, a % b)

Fin(n, d) ==
    LET g == GCD(Abs(n), Abs(d))
        sgn == IF d < 0 THEN 0 - 1 ELSE 1 IN
    [kind |-> "fin", num |-> sgn * (n \div g), den |-> sgn * (d \div g)]

F(i) == [kind |-> "fin", num |-> i, den |-> 1]

Inf == [kind |-> "inf", num |-> 0, den |-> 1]
NegInf == [kind |-> "-inf", num |-> 0, den |-> 1]
NaN == [kind |-> "nan", num |-> 0, den |-> 1]
NoDelta == [kind |-> "none", num |-> 0, den |-> 1]

\* x / y
FDiv(x, y) ==
    IF x.kind # "fin" \/ y.kind # "fin" THEN NaN
    ELSE IF y.num = 0
    THEN (IF x.num = 0 THEN NaN ELSE IF x.num > 0 THEN Inf ELSE NegInf)
    ELSE Fin(x.num * y.den, x.den * y.num)

\* x - y for a finite y
FSub(x, y) ==
    IF x.kind # "fin" THEN x
    ELSE Fin(x.num * y.den - y.num * x.den, x.den * y.den)

\* x * y for a finite y > 0
FMul(x, y) ==
    IF x.kind # "fin" THEN x
    ELSE Fin(x.num * y.num, x.den * y.den)

\* x > c for an integer c (comparisons with nan are False)
FGreater(x, c) ==
    \/ x.kind = "inf"
    \/ x.kind = "fin" /\ x.num > c * x.den

RECURSIVE Sum(_)
Sum(vs) == IF vs = <<>> THEN 0 ELSE Head(vs) + Sum(Tail(vs))

Values(rows) == [i \in 1..Len(rows) |-> rows[i].value]

\* Series.mean() of the value column of a non-empty frame
mean(rows) == FDiv(F(Sum(Values(rows))), F(Len(rows)))

\* (current_value / device_data['value'].mean() - 1) * 100
DeltaPct(current_value, rows) ==
    FMul(FSub(FDiv(F(current_value), mean(rows)), F(1)), F(100))

----------------------------------------------------------------------------
(* display_metrics *)

CriticalPct == 85
TargetPct == 70

METRICS == <<"cpu_usage", "memory_usage", "cpu_by_mode", "network_in", "network_out",
             "network_errors", "disk_reads", "disk_writes", "disk_io_time", "disk_space">>

\* device names of the model for which `'loop' in device` is true
LoopDevices == {"loop0", "loop1"}

\* the key column iterated without .unique()
unique_keep_all(ks) == ks

\* Series.unique(): the distinct keys in order of first appearance
RECURSIVE unique(_)
unique(ks) ==
    IF ks = <<>> THEN <<>>
    ELSE LET front == unique(SubSeq(ks, 1, Len(ks) - 1))
             k == ks[Len(ks)] IN
         IF \E i \in 1..Len(front) : front[i] = k THEN front ELSE Append(front, k)

\* df[col == key]: the rows whose column entry is key, in frame order
RECURSIVE Select(_, _, _)
Select(rows, col, key) ==
    IF rows = <<>> THEN <<>>
    ELSE IF col[1] = key
    THEN <<Head(rows)>> \o Select(Tail(rows), Tail(col), key)
    ELSE Select(Tail(rows), Tail(col), key)

\* device_data.iloc[-1]['value']
iloc_last(rows) == rows[Len(rows)].value

DeviceCol(rows) == [i \in 1..Len(rows) |-> rows[i].device]

\* x.get('mountpoint', '') applied to the metric column
MountCol(rows) == [i \in 1..Len(rows) |-> get(rows[i].metric, "mountpoint", "")]

Group(key, rows, delta, color, delta_color) ==
    [groupKey |-> key, latest |-> iloc_last(rows), rows |-> rows, delta |-> delta,
     color |-> color, delta_color |-> delta_color]

\* `if 'loop' not in device` of the disk loops; the network loops have no such test
DeviceShown(device, skipLoop) == ~(skipLoop /\ device \in LoopDevices)

\* for device in df['device'].unique(): ... st.metric(...)
RECURSIVE DeviceLoop(_, _, _, _)
DeviceLoop(devices, rows, skipLoop, withDelta) ==
    IF devices = <<>> THEN <<>>
    ELSE LET device == Head(devices)
             device_data == Select(rows, DeviceCol(rows), device)
             rest == DeviceLoop(Tail(devices), rows, skipLoop, withDelta) IN
         IF DeviceShown(device, skipLoop) /\ device_data # <<>>
         THEN <<Group(device, device_data,
                      IF withDelta THEN DeltaPct(iloc_last(device_data), device_data)
                      ELSE NoDelta,
                      "", "")>> \o rest
         ELSE rest

DeviceGroups(rows, skipLoop, withDelta) ==
    DeviceLoop(unique(DeviceCol(rows)), rows, skipLoop, withDelta)

\* the test without its truthiness part: `if mountpoint != '/boot'`
MountShown_no_truthiness(mountpoint) == mountpoint # "/boot"

\* `if mountpoint and mountpoint != '/boot'`
MountShown(mountpoint) == mountpoint # "" /\ mountpoint # "/boot"

\* `if current_value > 85` (critical_mounts, delta_color)
IsCritical(current_value) == current_value > CriticalPct

\* `'#4b6cb7' if current_value < 85 else '#ff4b5c'`
BarColor(current_value) == IF current_value < CriticalPct THEN "#4b6cb7" ELSE "#ff4b5c"

\* the two mount point loops (bar chart and detailed grid) over the same keys
RECURSIVE MountLoop(_, _)
MountLoop(mountpoints, rows) ==
    IF mountpoints = <<>> THEN <<>>
    ELSE LET mountpoint == Head(mountpoints)
             mount_data == Select(rows, MountCol(rows), mountpoint)
             current_value == iloc_last(mount_data)
             rest == MountLoop(Tail(mountpoints), rows) IN
         IF MountShown(mountpoint) /\ mount_data # <<>>
         THEN <<Group(mountpoint, mount_data, DeltaPct(current_value, mount_data),
                      BarColor(current_value),
                      IF IsCritical(current_value) THEN "inverse" ELSE "normal")>> \o rest
         ELSE rest

MountGroups(rows) == MountLoop(unique(MountCol(rows)), rows)

\* df.groupby(['timestamp', 'mode'])['value'].mean(): one row per (timestamp, mode)
ModeGroups(rows) ==
    {[timestamp |-> rows[i].timestamp, mode |-> rows[i].mode,
      value |-> mean(Select(rows,
                            [j \in 1..Len(rows) |-> <<rows[j].timestamp, rows[j].mode>>],
                            <<rows[i].timestamp, rows[i].mode>>))] : i \in 1..Len(rows)}

NoView ==
    [kind |-> "none", latest |-> 0, groups |-> <<>>, modes |-> {}, total_mounts |-> 0,
     critical_mounts |-> 0, avg_usage |-> NoDelta, over_target |-> FALSE]

\* what display_metrics shows for metric n whose frame is rows
DisplayOne(n, rows) ==
    IF rows = <<>> THEN NoView
    ELSE IF n \in {"cpu_usage", "memory_usage"}
    THEN [NoView EXCEPT !.kind = "gauge", !.latest = iloc_last(rows)]
    ELSE IF n = "cpu_by_mode"
    THEN [NoView EXCEPT !.kind = "modes", !.modes = ModeGroups(rows)]
    ELSE IF n \in {"network_in", "network_out"}
    THEN [NoView EXCEPT !.kind = "devices", !.latest = iloc_last(rows),
                        !.groups = DeviceGroups(rows, FALSE, TRUE)]
    ELSE IF n = "network_errors"
    THEN [NoView EXCEPT !.kind = "devices", !.groups = DeviceGroups(rows, FALSE, FALSE)]
    ELSE IF n \in {"disk_reads", "disk_writes", "disk_io_time"}
    THEN [NoView EXCEPT !.kind = "devices", !.groups = DeviceGroups(rows, TRUE, TRUE)]
    ELSE LET groups == MountGroups(rows) IN
         [NoView EXCEPT !.kind = "mounts", !.groups = groups,
                        !.total_mounts = Len(groups),
                        !.critical_mounts =
                            Cardinality({i \in 1..Len(groups) : IsCritical(groups[i].latest)}),
                        !.avg_usage = mean(rows),
                        !.over_target = FGreater(mean(rows), TargetPct)]

----------------------------------------------------------------------------
(* Inputs *)

RECURSIVE SeqsUpTo(_, _)
SeqsUpTo(S, n) ==
    IF n = 0 THEN {<<>>}
    ELSE LET shorter == SeqsUpTo(S, n - 1) IN
         shorter \cup {Append(q, x) : q \in {r \in shorter : Len(r) = n - 1}, x \in S}

Eth0 == Labels("eth0", "idle", "/")
Sda == Labels("sda", "user", "/data")
Loop0 == Labels("loop0", Absent, "/boot")

\* items for the parser: well-formed ones and every way the try block raises
ParserItems ==
    {Item(Eth0, <<1000, <<"4", "2">>>>),
     Item(Sda, <<1000, <<"-", "5">>>>),
     [keys |-> {"value"}, metric |-> NoLabels, value |-> <<2000, <<"7">>>>],  \* no 'metric'
     [keys |-> {"metric"}, metric |-> Eth0, value |-> <<>>],                   \* no 'value'
     Item(Eth0, <<>>),                                                         \* value: []
     Item(Eth0, <<1000>>),                                                     \* value: [ts]
     Item(Sda, <<1000, <<"a", "b", "c">>>>),
     Item(Eth0, <<1000, <<"-">>>>)}

\* raw responses without a usable result collection
MalformedRaws ==
    {PyNone,
     Dict({}, NullData),                                         \* {}
     Dict({"status"}, NullData),                                 \* no 'data'
     Dict({"status", "data"}, NullData),                         \* 'data': null
     Dict({"status", "data"}, DataObj({}, <<>>)),                \* 'data': {}
     Dict({"status", "data"}, DataObj({"resultType"}, <<>>)),    \* no 'result'
     Vector(<<>>)}                                               \* 'result': []

\* items for the statistics: one series sampled at two instants
StatItems ==
    {Item(Eth0, <<t, v>>) : t \in {1000, 2000},
                            v \in {<<"0">>, <<"5">>, <<"-", "5">>, <<"8", "5">>, <<"8", "6">>}}

\* items for the grouping: every label present, some absent, all absent
GroupItems ==
    {Item(m, <<1000, <<"5">>>>) : m \in {Eth0, Sda, Loop0, NoLabels,
                                         Labels(Absent, "idle", "/")}}
    \cup {Item(Eth0, <<1000, <<"9", "0">>>>)}

PipeRaws ==
    MalformedRaws
    \cup {Vector(items) : items \in SeqsUpTo(ParserItems, MaxItems)}
    \cup {Vector(items) : items \in SeqsUpTo(StatItems, MaxItems)}
    \cup {Vector(items) : items \in SeqsUpTo(GroupItems, MaxItems)}

\* one metric of each kind of grouping display_metrics performs
PipeNames == {"cpu_by_mode", "network_in", "disk_reads", "disk_space"}

----------------------------------------------------------------------------
(* Specifications *)

IdleClient == backend = <<>> /\ reply = NoReply

IdlePipe == name = "" /\ raw = PyNone /\ df = EmptyFrame /\ view = NoView

IdleLoop ==
    /\ cycle = 0 /\ qi = 0 /\ results = <<>> /\ shown = <<>> /\ emitted = 0
    /\ auto_refresh = TRUE /\ refresh_rate = 15 /\ slept = 0
    /\ stop_requested = FALSE

(* One call of PrometheusClient.query against a scripted backend *)

InitClient == pc = "call" /\ backend \in Scripts /\ reply = NoReply /\ IdlePipe /\ IdleLoop

Query ==
    /\ pc = "call"
    /\ reply' = query(backend)
    /\ pc' = "returned"
    /\ UNCHANGED <<backend, pipeVars, loopVars>>

NextClient == Query

SpecClient == InitClient /\ [][NextClient]_vars

(* process_metric, then the display of its frame, for one metric *)

InitPipe ==
    /\ pc = "parse" /\ name \in PipeNames /\ raw \in PipeRaws
    /\ df = EmptyFrame /\ view = NoView /\ IdleClient /\ IdleLoop

Parse ==
    /\ pc = "parse"
    /\ df' = process_metric(raw)
    /\ pc' = IF process_metric(raw).raised THEN "raised" ELSE "display"
    /\ UNCHANGED <<name, raw, view, clientVars, loopVars>>

Display ==
    /\ pc = "display"
    /\ view' = DisplayOne(name, df.frame)
    /\ pc' = "shown"
    /\ UNCHANGED <<name, raw, df, clientVars, loopVars>>

NextPipe == Parse \/ Display

SpecPipe == InitPipe /\ [][NextPipe]_vars

(* main: the polling loop over fetch_metrics and display_metrics *)

\* what the backend may answer to one catalog query of the loop
LoopBodies ==
    {Vector(<<>>),
     Vector(<<Item(Eth0, <<1000, <<"9", "0">>>>)>>),
     Dict({"status"}, NullData),
     Dict({"status", "data"}, NullData),
     Dict({"status", "data"}, DataObj({"resultType"}, <<>>))}

LoopScripts ==
    {<<Resp(200, FALSE, TRUE, b)>> : b \in LoopBodies}
    \cup {<<Resp(200, FALSE, FALSE, PyNone)>>, <<Resp(404, FALSE, FALSE, PyNone)>>,
          <<Resp(503, FALSE, FALSE, PyNone)>>, <<ConnErr>>}

RefreshRates == {5, 15, 60}

InitLoop ==
    /\ pc = "fetch" /\ cycle = 1 /\ qi = 1 /\ results = <<>> /\ shown = <<>>
    /\ emitted = 0 /\ slept = 0
    /\ auto_refresh \in BOOLEAN /\ refresh_rate \in RefreshRates
    /\ stop_requested = FALSE
    /\ IdleClient /\ IdlePipe

\* one iteration of the for loop of fetch_metrics, up to its time.sleep(0.1):
\* an exception of process_metric leaves fetch_metrics and main
Fetch ==
    /\ pc = "fetch"
    /\ \E b \in LoopScripts :
          LET raw_data == query(b)
              frame == process_metric(raw_data.ret) IN
          /\ reply' = raw_data
          /\ IF frame.raised
             THEN pc' = "crashed" /\ UNCHANGED results
             ELSE /\ results' = Append(results, [name |-> METRICS[qi], frame |-> frame.frame])
                  /\ pc' = "delay"
    /\ UNCHANGED <<backend, pipeVars, cycle, qi, shown, emitted, auto_refresh,
                   refresh_rate, slept, stop_requested>>

\* a fetch_metrics whose `return results` sits inside the for loop: it returns
\* after the first query
Delay_return_in_loop ==
    /\ pc = "delay"
    /\ qi' = qi /\ pc' = "display"
    /\ UNCHANGED <<clientVars, pipeVars, cycle, results, shown, emitted, auto_refresh,
                   refresh_rate, slept, stop_requested>>

\* time.sleep(0.1) ends: the next METRICS entry, or fetch_metrics returns
Delay ==
    /\ pc = "delay"
    /\ IF qi < Len(METRICS)
       THEN qi' = qi + 1 /\ pc' = "fetch"
       ELSE qi' = qi /\ pc' = "display"
    /\ UNCHANGED <<clientVars, pipeVars, cycle, results, shown, emitted, auto_refresh,
                   refresh_rate, slept, stop_requested>>

\* data.get(n, pd.DataFrame())
data_get(data, n) ==
    IF \E i \in 1..Len(data) : data[i].name = n
    THEN (CHOOSE e \in {data[i] : i \in 1..Len(data)} : e.name = n).frame
    ELSE <<>>

\* display_metrics(data), then last_refresh.text(...)
display_metrics(data) ==
    [i \in 1..Len(METRICS) |->
        [name |-> METRICS[i], view |-> DisplayOne(METRICS[i], data_get(data, METRICS[i]))]]

Show ==
    /\ pc = "display"
    /\ shown' = display_metrics(results)
    /\ emitted' = emitted + 1
    /\ pc' = "sleep"
    /\ UNCHANGED <<clientVars, pipeVars, cycle, qi, results, auto_refresh, refresh_rate,
                   slept, stop_requested>>

\* time.sleep(refresh_rate) or time.sleep(1), then the next iteration of `while True`
\* enters placeholder.container() afresh
Sleep ==
    /\ pc = "sleep"
    /\ cycle < MaxCycles
    /\ slept' = IF auto_refresh THEN refresh_rate ELSE 1
    /\ cycle' = cycle + 1
    /\ qi' = 1 /\ results' = <<>> /\ shown' = <<>>
    /\ pc' = "fetch"
    /\ UNCHANGED <<clientVars, pipeVars, emitted, auto_refresh, refresh_rate,
                   stop_requested>>

\* a Stop signal is sent while the loop runs, at any position including its sleeps.
\* main has no stop flag, cancellation token or exit from `while True`, and its
\* sleeps are plain time.sleep calls: no statement of Fetch, Delay, Show or Sleep
\* reads the signal
Stop ==
    /\ pc \in {"fetch", "delay", "display", "sleep"}
    /\ ~stop_requested
    /\ stop_requested' = TRUE
    /\ UNCHANGED <<pc, clientVars, pipeVars, cycle, qi, results, shown, emitted,
                   auto_refresh, refresh_rate, slept>>

Next == Fetch \/ Delay \/ Show \/ Sleep \/ Stop

Init == InitLoop

Spec == Init /\ [][Next]_vars

----------------------------------------------------------------------------
(* Claims about PrometheusClient.query (SpecClient) *)

Transient(r) == ~r.err /\ r.status \in {500, 502, 503, 504}

AlwaysTransient == \A i \in 1..Len(backend) : Transient(backend[i])

\* C1, as stated: against a backend that answers every attempt with 500/502/503/504
\* one call makes exactly 3 HTTP attempts and then reports that retries are exhausted.
C1_ThreeAttempts ==
    (pc = "returned" /\ AlwaysTransient)
        => (reply.attempts = 3 /\ reply.error = "RetryError")

\* C1, amended: against such a backend one call makes exactly 4 HTTP attempts (1 initial
\* + 3 retries), never a 5th, then reports RetryError and returns None.
C1_FourAttempts ==
    (pc = "returned" /\ AlwaysTransient)
        => (reply.attempts = 4 /\ reply.error = "RetryError" /\ reply.ret = PyNone)

C1_Witness ==
    /\ pc = "returned"
    /\ \A i \in 1..Len(backend) : ~backend[i].err /\ backend[i].status = 503
    /\ reply.attempts = 4

FirstIs4xx == ~backend[1].err /\ backend[1].status >= 400 /\ backend[1].status < 500

FirstIsBadJson ==
    ~backend[1].err /\ backend[1].status >= 200 /\ backend[1].status < 300
    /\ ~backend[1].json

\* the errors reported when the retries are used up
ExhaustedErrors == {"RetryError", "ConnectionError"}

\* C2, as stated: a first response that is 4xx, or 2xx with a body that is not JSON,
\* ends the call with an error after exactly 1 attempt, and that error is not the one
\* of exhausted retries.
C2_NoRetryOn4xx ==
    (pc = "returned" /\ (FirstIs4xx \/ FirstIsBadJson))
        => (reply.attempts = 1 /\ reply.error # "" /\ reply.error \notin ExhaustedErrors)

\* C2, amended: that holds for a 2xx with a non-JSON body and for a 4xx that is not a
\* 413/429 carrying a Retry-After header (None is returned, HTTPError or
\* JSONDecodeError is reported); a 429 with Retry-After is retried, so the call
\* makes at least 2 attempts.
C2_NoRetryUnlessRetryAfter ==
    /\ (pc = "returned"
        /\ (FirstIsBadJson
            \/ (FirstIs4xx /\ ~(backend[1].retry_after /\ backend[1].status \in {413, 429}))))
          => (/\ reply.attempts = 1
              /\ reply.ret = PyNone
              /\ reply.error \in {"HTTPError", "JSONDecodeError"}
              /\ reply.error \notin ExhaustedErrors)
    /\ (pc = "returned" /\ FirstIs4xx /\ backend[1].retry_after /\ backend[1].status = 429)
          => reply.attempts >= 2

C2_Witness ==
    /\ pc = "returned"
    /\ backend[1].status = 404
    /\ reply.attempts = 1
    /\ reply.error = "HTTPError"

----------------------------------------------------------------------------
(* Claims about process_metric (SpecPipe) *)

Parsed == pc \in {"raised", "display", "shown"}

\* the response has no result collection, or an empty one
LacksResult(r) ==
    \/ r.isNone
    \/ "data" \notin r.keys
    \/ r.data.isNull
    \/ "result" \notin r.data.keys
    \/ r.data.result = <<>>

\* C3: for every raw response that lacks the result collection (None, no 'data',
\* 'data' without 'result', 'data' null, empty 'result') process_metric returns an
\* empty frame and never raises.
C3_MalformedGivesEmpty ==
    (Parsed /\ LacksResult(raw)) => (~df.raised /\ df.frame = <<>>)

\* the cases of C3 the guard of process_metric does handle
C3_Witness ==
    /\ Parsed /\ ~raw.isNone /\ "data" \notin raw.keys /\ raw.keys # {}
    /\ ~df.raised /\ df.frame = <<>>

HasResult(r) == ~LacksResult(r)

\* an item with its value pair, its timestamp and a numeric value string
WellFormed(item) ==
    /\ "value" \in item.keys
    /\ Len(item.value) = 2
    /\ float(item.value[2]).ok

WellFormedAt(items) == {i \in 1..Len(items) : WellFormed(items[i])}

\* the index of the k-th well-formed item
NthWellFormed(items, k) ==
    CHOOSE i \in WellFormedAt(items) :
        Cardinality({j \in WellFormedAt(items) : j <= i}) = k

\* C4: the frame holds exactly one record per well-formed item, in input order, and
\* none for an item whose value pair, timestamp or numeric value is missing; a
\* malformed item never keeps the items after it from being parsed.
C4_OneRecordPerWellFormedItem ==
    (Parsed /\ HasResult(raw)) =>
        LET items == raw.data.result IN
        /\ ~df.raised
        /\ Len(df.frame) = Cardinality(WellFormedAt(items))
        /\ \A k \in 1..Len(df.frame) :
              LET item == items[NthWellFormed(items, k)] IN
              /\ df.frame[k].timestamp = item.value[1]
              /\ df.frame[k].value = float(item.value[2]).v
              /\ df.frame[k].metric = (IF "metric" \in item.keys THEN item.metric
                                       ELSE NoLabels)

\* a malformed item followed by a well-formed one, which is parsed
C4_Witness ==
    /\ Parsed /\ HasResult(raw)
    /\ Len(raw.data.result) >= 2
    /\ ~WellFormed(raw.data.result[1])
    /\ WellFormed(raw.data.result[2])
    /\ Len(df.frame) >= 1
    /\ df.frame[1].timestamp = raw.data.result[2].value[1]

----------------------------------------------------------------------------
(* Claims about the groups display_metrics emits (SpecPipe) *)

Shown == pc = "shown"

GroupsAt == 1..Len(view.groups)

\* the groups for which display_metrics computes a delta
HasDelta(g) == g.delta.kind # "none"

MeanIsZero(rows) == Sum(Values(rows)) = 0

\* x = (latest / mean - 1) * 100 for mean = total / n # 0
IsDeltaOf(x, latest, total, n) ==
    x.kind = "fin" /\ x.num * total = 100 * (latest * n - total) * x.den

\* C6: a group whose values have mean 0 gets deltaPct exactly 0, never an infinite or
\* NaN result; every other group gets (latest / mean - 1) * 100.
C6_ZeroMeanGivesZeroDelta ==
    Shown => \A i \in GroupsAt :
        LET g == view.groups[i] IN
        HasDelta(g) =>
            IF MeanIsZero(g.rows) THEN g.delta = F(0)
            ELSE IsDeltaOf(g.delta, g.latest, Sum(Values(g.rows)), Len(g.rows))

\* what the code does compute: the quotient's IEEE value when the mean is 0
C6_Observed ==
    Shown => \A i \in GroupsAt :
        LET g == view.groups[i] IN
        HasDelta(g) =>
            IF MeanIsZero(g.rows)
            THEN g.delta = (IF g.latest = 0 THEN NaN ELSE IF g.latest > 0 THEN Inf ELSE NegInf)
            ELSE IsDeltaOf(g.delta, g.latest, Sum(Values(g.rows)), Len(g.rows))

\* C7: a latest value >= criticalPct (85 for disk_space) is critical, the boundary
\* value 85 included: every mount point whose latest value is >= 85 is counted in
\* critical_mounts and shown as critical.
C7_BoundaryIsCritical ==
    (Shown /\ view.kind = "mounts") =>
        /\ view.critical_mounts =
              Cardinality({i \in GroupsAt : view.groups[i].latest >= 85})
        /\ \A i \in GroupsAt :
              view.groups[i].latest >= 85 <=> view.groups[i].delta_color = "inverse"

\* the timestamps of the records of a group
MaxTimestamp(rows) ==
    CHOOSE t \in {rows[i].timestamp : i \in 1..Len(rows)} :
        \A i \in 1..Len(rows) : rows[i].timestamp <= t

\* the value of the last record, in input order, among those with the maximal timestamp
ValueAtMaxTimestamp(rows) ==
    LET at == {i \in 1..Len(rows) : rows[i].timestamp = MaxTimestamp(rows)}
        last == CHOOSE i \in at : \A j \in at : j <= i IN
    rows[last].value

\* C8: the latest statistic of every group is the value of its record with the
\* maximal timestamp, for every input order; among several such records, of the last.
C8_LatestIsMaxTimestamp ==
    Shown => \A i \in GroupsAt :
        view.groups[i].latest = ValueAtMaxTimestamp(view.groups[i].rows)

\* what the code does compute: the value of the last record of the group
C8_Observed ==
    Shown => \A i \in GroupsAt :
        LET g == view.groups[i] IN g.latest = g.rows[Len(g.rows)].value

Rows == df.frame

RowsAt == 1..Len(Rows)

Lacking(label) == {r \in RowsAt : Rows[r].metric[label] = Absent}

\* the groups of view that hold row r
GroupsOf(r) == {i \in GroupsAt : \E j \in 1..Len(view.groups[i].rows) :
                                    view.groups[i].rows[j] = Rows[r]}

\* group i carries the statistics of its rows
HasStats(i) ==
    LET g == view.groups[i] IN
    g.rows # <<>> /\ g.latest = g.rows[Len(g.rows)].value

DeviceMetrics == {"network_in", "network_out", "network_errors", "disk_reads",
                  "disk_writes", "disk_io_time"}

DiskMetrics == {"disk_reads", "disk_writes", "disk_io_time"}

UnknownDeviceGroup ==
    (Shown /\ name \in DeviceMetrics) =>
        \A r \in Lacking("device") :
            \E i \in GroupsOf(r) : view.groups[i].groupKey = "unknown" /\ HasStats(i)

UnknownModeGroup ==
    (Shown /\ name = "cpu_by_mode") =>
        \A r \in Lacking("mode") :
            \E m \in view.modes : m.mode = "unknown" /\ m.timestamp = Rows[r].timestamp

\* C9, as stated: for each of the labels device, mountpoint and mode, every record
\* that lacks the label is in the group whose key is "unknown", which is emitted with
\* its statistics; no record is dropped from grouping because its label is absent.
C9_UnknownGroupForEveryLabel ==
    /\ UnknownDeviceGroup
    /\ UnknownModeGroup
    /\ (Shown /\ name = "disk_space") =>
          \A r \in Lacking("mountpoint") :
              \E i \in GroupsOf(r) : view.groups[i].groupKey = "unknown" /\ HasStats(i)

\* C9, amended: that holds for device and mode; a record that lacks the mountpoint
\* label gets the key '' and is left out of the mount point groups: no group holds it
\* and no mount point group is keyed "unknown" or ''.
C9_UnknownGroupForDeviceAndMode ==
    /\ UnknownDeviceGroup
    /\ UnknownModeGroup
    /\ (Shown /\ name = "disk_space") =>
          /\ \A r \in Lacking("mountpoint") : GroupsOf(r) = {}
          /\ \A i \in GroupsAt :
                /\ view.groups[i].groupKey \notin {"unknown", ""}
                /\ \A j \in 1..Len(view.groups[i].rows) :
                      view.groups[i].rows[j].metric.mountpoint # Absent

\* records without a device label, shown in the group "unknown" beside another group
C9_Witness ==
    /\ Shown /\ name = "network_in"
    /\ Lacking("device") # {}
    /\ Lacking("device") # RowsAt
    /\ \E i \in GroupsAt : view.groups[i].groupKey = "unknown" /\ HasStats(i)

\* the grouping key of every row of the frame, for the metric displayed
KeyCol == IF name = "disk_space" THEN MountCol(Rows) ELSE DeviceCol(Rows)

FirstAt(k) == CHOOSE r \in RowsAt : KeyCol[r] = k /\ \A q \in RowsAt : KeyCol[q] = k => r <= q

DistinctKeys ==
    \A i, j \in GroupsAt : i # j => view.groups[i].groupKey # view.groups[j].groupKey

FirstSeenOrder ==
    /\ \A i \in GroupsAt : \E r \in RowsAt : KeyCol[r] = view.groups[i].groupKey
    /\ \A i, j \in GroupsAt :
          i < j => FirstAt(view.groups[i].groupKey) < FirstAt(view.groups[j].groupKey)

Grouped == Shown /\ view.kind \in {"devices", "mounts"}

LeftOut(k) ==
    \/ name \in DiskMetrics /\ k \in LoopDevices
    \/ name = "disk_space" /\ k \in {"", "/boot"}

----------------------------------------------------------------------------
(* Claims about the polling loop (Spec) *)

\* C5: in every cycle, whichever catalog queries fail or return a malformed response,
\* the remaining queries are still issued, the snapshot has an entry for every
\* catalog metric with the failed ones empty, and the loop goes on: no query failure
\* or parse failure terminates it.
C5_FailuresNeverStopTheLoop ==
    /\ pc # "crashed"
    /\ (pc = "delay" /\ reply.error # "") => results[qi].frame = <<>>
    /\ pc \in {"display", "sleep"} =>
          /\ Len(results) = Len(METRICS)
          /\ \A i \in 1..Len(METRICS) : results[i].name = METRICS[i]
    /\ pc = "sleep" => Len(shown) = Len(METRICS)

\* what the code does guarantee: a failed query (None) gives an empty entry and the
\* cycle goes on; the loop ends only on a 2xx JSON response whose 'data' is null or
\* has no 'result'
C5_Observed ==
    /\ pc = "crashed" =>
          /\ reply.error = ""
          /\ ~reply.ret.isNone /\ "data" \in reply.ret.keys
          /\ (reply.ret.data.isNull \/ "result" \notin reply.ret.data.keys)
    /\ (pc = "delay" /\ reply.error # "") => results[qi].frame = <<>>
    /\ pc \in {"display", "sleep"} =>
          /\ Len(results) = Len(METRICS)
          /\ \A i \in 1..Len(METRICS) : results[i].name = METRICS[i]
    /\ pc = "sleep" => Len(shown) = Len(METRICS)

\* the scheduler is Paused: the "Auto Refresh" checkbox of this run is off
Paused == ~auto_refresh

\* C11: while the scheduler is Paused (auto refresh switched off) no new cycle is
\* started: once the cycle that was in flight has finished and emitted its snapshot,
\* no catalog query is issued and no snapshot is emitted. The checkbox is read once
\* per run of main, so the cycle in flight at the pause is the first cycle of the run.
C11_PausedStartsNoCycle ==
    Paused =>
        /\ cycle = 1
        /\ emitted <= 1
        /\ slept = 0

\* what the code does while Paused: the cycle in flight completes and is shown, and
\* after time.sleep(1) the next cycle issues its queries
C11_Observed ==
    /\ (Paused /\ cycle > 1) => slept = 1
    /\ (~Paused /\ cycle > 1) => slept = refresh_rate
    /\ (pc = "sleep") => emitted = cycle

\* a paused run in its second cycle, a query of that cycle answered
C11_PausedSecondCycle ==
    /\ Paused
    /\ cycle = 2 /\ pc = "delay" /\ emitted = 1 /\ slept = 1

\* C12: from every Running state, mid-cycle or in a sleep (inter-query delay,
\* end-of-cycle interval), a Stop signal brings the scheduler to Stopped: once the
\* signal has arrived the cycle in flight is abandoned, so no snapshot is emitted
\* for it and no later cycle is started.
C12_StopAbandonsTheCycle ==
    [][stop_requested => (emitted' = emitted /\ cycle' = cycle)]_vars

\* what the code does after a Stop signal: the same as without it. The snapshot that
\* is due is emitted, the sleep runs to its end and the next cycle starts.
C12_Observed ==
    [][stop_requested =>
          /\ pc = "delay" => pc' \in {"fetch", "display"}
          /\ pc = "display" => emitted' = emitted + 1
          /\ pc = "sleep" => (cycle' = cycle + 1 /\ pc' = "fetch")]_vars

\* the queries of the current cycle that have completed and been parsed
Completed == Len(results)

\* C13: in every run of the polling loop one cycle is active at a time; a cycle emits
\* its snapshot once, and only after every catalog query of the cycle has completed
\* and been parsed, in catalog order; snapshots are emitted in cycle order: while
\* cycle n+1 issues its queries the snapshots of cycles 1..n, and no other, have been
\* emitted.
C13_OneSnapshotPerCycleInOrder ==
    /\ pc = "fetch" => Completed = qi - 1
    /\ pc = "delay" => Completed = qi
    /\ pc \in {"fetch", "delay", "display", "crashed"} =>
          /\ emitted = cycle - 1
          /\ shown = <<>>
    /\ pc \in {"display", "sleep"} =>
          /\ Completed = Len(METRICS)
          /\ \A i \in 1..Len(METRICS) : results[i].name = METRICS[i]
    /\ pc = "sleep" =>
          /\ emitted = cycle
          /\ shown = display_metrics(results)

\* the second cycle has emitted its snapshot, after that of the first
C13_SecondSnapshot ==
    /\ pc = "sleep" /\ cycle = 2 /\ emitted = 2
    /\ Completed = Len(METRICS)
    /\ Len(shown) = Len(METRICS)

====
